---- MODULE Spec2Model ----
(***************************************************************************)
(* The translation pipeline of src/app/page.tsx (component Home and its    *)
(* async handler processAudio) as a state machine.                         *)
(*                                                                         *)
(* React state (useState) is held in the variables of the same name; a     *)
(* state setter changes the variable at once, and the values a newly       *)
(* created processAudio closure sees are those of the last render, kept in *)
(* `closure` and refreshed by the action Render.  processingRef is a ref:  *)
(* every closure reads and writes the same cell.                           *)
(*                                                                         *)
(* Each delivered audio segment gets one entry of `segs`; the entry is the *)
(* position of that processAudio invocation (pc), what it captured and     *)
(* what the remote services hold for it.  `response` is the last answer a  *)
(* remote service gave, and `now` the clock, which advances while a remote *)
(* call is awaited.                                                        *)
(*                                                                         *)
(* The speech synthesis of src/components/language-selector.tsx (component *)
(* LanguageSelector, its handlers playTranslatedText and cleanupAudio) is  *)
(* the second part: one entry of `reqs` per invocation of                  *)
(* playTranslatedText, the three refs the invocations share, and the       *)
(* pending auto-play timers.  Its specification is TtsSpec, in which Home  *)
(* only hands over new values of translatedText and the voice stays        *)
(* enabled.  DebounceSpec is the debounce of the automatic playback with   *)
(* the voice button (isTTSEnabled of Home).                                *)
(***************************************************************************)
EXTENDS Integers, Sequences, FiniteSets, TLC

VARIABLES
    processingRef,       \* page.tsx:29  useRef(false)
    isProcessing,        \* page.tsx:23
    supportedLanguages,  \* page.tsx:24  Language[]
    error,               \* page.tsx:25  string | null
    transcribedText,     \* page.tsx:26
    translatedText,      \* page.tsx:27  a string is a sequence of words
    messages,            \* page.tsx:28  Message[]
    isInitialSetup,      \* page.tsx:30
    closure,             \* what processAudio of the last render captured
    segs,                \* one entry per delivered segment / invocation
    response,            \* the last response a remote service sent
    now,                 \* Date.now()
    isPlaying,           \* language-selector.tsx:35
    isLoadingAudio,      \* language-selector.tsx:36
    audioRef,            \* language-selector.tsx:40  the request whose Audio
    audioUrlRef,         \* language-selector.tsx:41  the request whose URL
    abortControllerRef,  \* language-selector.tsx:42  the request whose controller
    selector,            \* what playTranslatedText of the last render captured
    timers,              \* language-selector.tsx:119  the pending setTimeouts
    isTTSEnabled,        \* page.tsx:33
    ttsEnableTimeRef,        \* language-selector.tsx:43
    lastTranslationTimeRef,  \* language-selector.tsx:44
    caught,              \* the last error playTranslatedText caught
    reqs                 \* one entry per invocation of playTranslatedText

ttsVars == <<isPlaying, isLoadingAudio, audioRef, audioUrlRef,
             abortControllerRef, selector, timers, caught, reqs,
             isTTSEnabled, ttsEnableTimeRef, lastTranslationTimeRef>>

\* what the debounce effects of LanguageSelector read and write
debounceVars == <<timers, isTTSEnabled, ttsEnableTimeRef,
                  lastTranslationTimeRef>>

\* the state of Home but translatedText and the clock
homeVars == <<processingRef, isProcessing, supportedLanguages, error,
              transcribedText, messages, isInitialSetup,
              closure, segs, response>>

pipelineVars == <<homeVars, now>>

vars == <<pipelineVars, translatedText, ttsVars>>

(***************************************************************************)
(* Bounds of the model.                                                    *)
(***************************************************************************)
MaxSegments == 3
MaxWords == 2
MaxRequests == 2
MaxTicks == 2

(***************************************************************************)
(* Program constants and the values inputs are drawn from.                 *)
(***************************************************************************)
MinAudioSize == 15000
MaxPlayAttempts == 3
FirstRetryDelay == 100
DebounceWait == 1000

AudioSizes == {MinAudioSize - 1, MinAudioSize}

Null == "null"
NoRef == 0

English == [code |-> "en", name |-> "English"]
Spanish == [code |-> "es", name |-> "Spanish"]

Languages == {English, Spanish}

\* What /api/speech can hear: transcriptionData.text and .language.  The
\* language is one of the pair or another one.
Utterances ==
    {[text |-> "Good morning", language |-> "en"],
     [text |-> "Bonjour", language |-> "fr"]}

\* A translation of n words; a partial translation is a prefix of it.
Translation(n) == [i \in 1..n |-> i]

EmptyText == <<>>

(***************************************************************************)
(* The answers of the remote services.  error and details are the fields   *)
(* of the JSON body of a failed call; "" stands for an absent field.       *)
(***************************************************************************)
TranscribeErrors ==
    {"Low quality speech detected", "No speech detected", "Speech too short",
     "Transcription too short", "Network connection failed",
     "API access blocked", "Request timeout", "Invalid audio file",
     "Failed to process audio", ""}

DetectErrors == {"No speech detected", "Failed to detect languages", ""}

Details == {"", "provider detail"}

NoResponse ==
    [stage |-> "none", kind |-> "none", error |-> "", details |-> "",
     isError |-> TRUE, words |-> 0, pair |-> <<>>]

\* kind: "ok", "fail" (response.ok is false), "throw" (fetch or json() rejects)
Answer(stage, kind, err, det, isErr) ==
    [stage |-> stage, kind |-> kind, error |-> err, details |-> det,
     isError |-> isErr, words |-> 0, pair |-> <<>>]

\* /api/language answers with languageData.sourceLanguage and .targetLanguage
Detected(r, sourceLanguage, targetLanguage) ==
    IF r.kind = "ok"
    THEN [r EXCEPT !.pair = <<sourceLanguage, targetLanguage>>]
    ELSE r

\* translateText resolves with a translation of n words
Translated(n) == [Answer("translate", "ok", "", "", TRUE) EXCEPT !.words = n]

(***************************************************************************)
(* Pure parts of processAudio.                                             *)
(***************************************************************************)
\* the guard is never consulted
GuardedNever == FALSE

\* page.tsx:37
Guarded == processingRef

\* the threshold off by one
TooShortOffByOne(size) == size < MinAudioSize - 1

\* page.tsx:42
TooShort(size) == size < MinAudioSize

\* a category of the list left out
IsSetupQualityFailureNarrow(err) ==
    \/ err = "Low quality speech detected"
    \/ err = "No speech detected"

\* page.tsx:65-67
IsSetupQualityFailure(err) ==
    \/ err = "Low quality speech detected"
    \/ err = "No speech detected"
    \/ err = "Speech too short"

\* the list of the setup branch copied to the translation branch
IsSteadyQualityFailureCopied(err) ==
    \/ err = "Low quality speech detected"
    \/ err = "No speech detected"
    \/ err = "Speech too short"

\* page.tsx:121-123
IsSteadyQualityFailure(err) ==
    \/ err = "Low quality speech detected"
    \/ err = "No speech detected"
    \/ err = "Transcription too short"

\* a || b of two strings
Or(a, b) == IF a # "" THEN a ELSE b

NetworkMessage == "network unstable: check the mobile data connection and retry"
BlockedMessage == "server access temporarily limited: retry in a moment"
TimeoutMessage == "network too slow: retry on a more stable network"
InvalidAudioMessage == "audio file not valid: check the microphone permission and retry"

\* page.tsx:73-85; new Error(undefined).message is ""
UserFriendlyError(data) ==
    IF data.error = "Network connection failed" THEN NetworkMessage
    ELSE IF data.error = "API access blocked" THEN BlockedMessage
    ELSE IF data.error = "Request timeout" THEN TimeoutMessage
    ELSE IF data.error = "Invalid audio file" THEN InvalidAudioMessage
    ELSE Or(data.details, data.error)

\* page.tsx:127
SteadyErrorMessage(data) ==
    Or(data.details, Or(data.error, "Failed to transcribe audio"))

\* the fallback text whatever the response says
DetectErrorMessageGeneric(data) == "Failed to detect languages"

\* page.tsx:102
DetectErrorMessage(data) == Or(data.error, "Failed to detect languages")

\* page.tsx:155
CatchMessage(thrown) ==
    IF thrown.isError THEN thrown.error ELSE "An unknown error occurred"

\* the two languages stored in the other order
DetectedPairSwapped(sourceLanguage, targetLanguage) ==
    <<targetLanguage, sourceLanguage>>

\* page.tsx:105-108
DetectedPair(sourceLanguage, targetLanguage) ==
    <<sourceLanguage, targetLanguage>>

\* setIsInitialSetup(false) placed before the check of languageResponse.ok
PhaseAfterDetectUnchecked(ok, phase) == FALSE

\* page.tsx:101-109: the phase once the detection call has answered
PhaseAfterDetect(ok, phase) == IF ok THEN FALSE ELSE phase

\* page.tsx:55, 91, 110, 133: the call that follows a transcription
NextCall(setup) == IF setup THEN "detecting" ELSE "translating"

\* the partial appended to what is displayed
OnPartialAppended(prev, partialTranslation) == prev \o partialTranslation

\* translateText (lib/translate, not among the sources): it calls onPartial
\* zero or more times, each time with a more complete translation, and then
\* resolves with the complete one.  sent is the length of the last partial.
StreamsPartial(sent, k) == sent < k /\ k <= MaxWords

Resolves(sent, n) == sent <= n /\ 1 <= n /\ n <= MaxWords

\* page.tsx:137-139
OnPartial(prev, partialTranslation) == partialTranslation

\* page.tsx:143-150
NewMessage(text, translation, language, langs, t) ==
    [id |-> ToString(t), originalText |-> text, translatedText |-> translation,
     timestamp |-> t, sourceLang |-> language, targetLang |-> langs[2].code]

\* the new message put first
PrependMessage(prev, newMessage) == <<newMessage>> \o prev

\* page.tsx:152
AppendMessage(prev, newMessage) == Append(prev, newMessage)

\* the release at the end of the try block instead of in finally: the early
\* return of a quality failure skips it
GuardAfterTryOnly(outcome) == outcome = "quality"

\* page.tsx:157-158: processingRef.current once the invocation has ended
GuardAfter(outcome) == FALSE

(***************************************************************************)
(* Invocations of processAudio.                                            *)
(***************************************************************************)
Running == {"transcribing", "detecting", "translating"}

\* an invocation that made no step past the two early returns
Returned(pc, size) ==
    [pc |-> pc, size |-> size, setup |-> TRUE, langs |-> <<>>, hint |-> <<>>,
     text |-> "", language |-> "", sent |-> 0, before |-> <<>>,
     nTranscribe |-> 0, nDetect |-> 0, nTranslate |-> 0, outcome |-> "none"]

\* page.tsx:47-60 and 112-116: the invocation that awaits /api/speech
Started(size, setup, langs) ==
    [Returned("transcribing", size) EXCEPT
        !.setup = setup, !.langs = langs,
        !.hint = IF setup THEN <<>> ELSE langs,
        !.nTranscribe = 1]

\* an invocation that has ended keeps what it did, not what it held
Finished(seg, outcome) ==
    [Returned("done", seg.size) EXCEPT
        !.setup = seg.setup, !.nTranscribe = seg.nTranscribe,
        !.nDetect = seg.nDetect, !.nTranslate = seg.nTranslate,
        !.outcome = outcome]

TypeOK ==
    /\ processingRef \in BOOLEAN
    /\ isProcessing \in BOOLEAN
    /\ isInitialSetup \in BOOLEAN
    /\ Len(supportedLanguages) \in {0, 2}
    /\ Len(segs) <= MaxSegments
    /\ now \in 0..(2 * MaxSegments)

Init ==
    /\ processingRef = FALSE
    /\ isProcessing = FALSE
    /\ supportedLanguages = <<>>
    /\ error = Null
    /\ transcribedText = ""
    /\ translatedText = EmptyText
    /\ messages = <<>>
    /\ isInitialSetup = TRUE
    /\ closure = [isInitialSetup |-> TRUE, supportedLanguages |-> <<>>]
    /\ segs = <<>>
    /\ response = NoResponse
    /\ now = 0
    /\ isPlaying = FALSE
    /\ isLoadingAudio = FALSE
    /\ audioRef = NoRef
    /\ audioUrlRef = NoRef
    /\ abortControllerRef = NoRef
    /\ selector = [isPlaying |-> FALSE, isLoadingAudio |-> FALSE,
                   translatedText |-> EmptyText]
    /\ timers = <<>>
    /\ isTTSEnabled = TRUE
    /\ ttsEnableTimeRef = 0
    /\ lastTranslationTimeRef = 0
    /\ caught = Null
    /\ reqs = <<>>

\* React renders Home again: processAudio is created anew over the current
\* state (page.tsx:22-36) and handed to the recorder (page.tsx:163-164).
Render ==
    /\ closure # [isInitialSetup |-> isInitialSetup,
                  supportedLanguages |-> supportedLanguages]
    /\ closure' = [isInitialSetup |-> isInitialSetup,
                   supportedLanguages |-> supportedLanguages]
    /\ UNCHANGED ttsVars
    /\ UNCHANGED <<processingRef, isProcessing, supportedLanguages, error,
                   transcribedText, translatedText, messages, isInitialSetup,
                   segs, response, now>>

\* the clock while a remote call is awaited: the answer comes later than
\* the request
Elapse == now' = now + 1

\* what the page shows (page.tsx:24-30), kept by an invocation from its
\* acceptance to the answer of /api/speech
Displayed ==
    [isInitialSetup |-> isInitialSetup,
     supportedLanguages |-> supportedLanguages, messages |-> messages,
     transcribedText |-> transcribedText, translatedText |-> translatedText,
     error |-> error]

\* page.tsx:36-60, 112-116: the recorder delivers a segment to processAudio
Deliver(size) ==
    /\ Len(segs) < MaxSegments
    /\ IF Guarded
       THEN /\ segs' = Append(segs, Returned("dropped", size))
            /\ UNCHANGED <<processingRef, isProcessing, error, response>>
       ELSE IF TooShort(size)
       THEN /\ segs' = Append(segs, Returned("ignored", size))
            /\ UNCHANGED <<processingRef, isProcessing, error, response>>
       ELSE /\ processingRef' = TRUE
            /\ isProcessing' = TRUE
            /\ error' = Null
            /\ segs' = Append(segs,
                  [Started(size, closure.isInitialSetup,
                           closure.supportedLanguages)
                      EXCEPT !.before = Displayed])
            /\ response' = NoResponse
    /\ UNCHANGED ttsVars
    /\ UNCHANGED <<supportedLanguages, transcribedText, translatedText,
                   messages, isInitialSetup, closure, now>>

\* page.tsx:154-160: return or throw, then catch and finally
EndInvocation(s, outcome, message) ==
    /\ segs' = [segs EXCEPT ![s] = Finished(segs[s], outcome)]
    /\ error' = IF outcome = "error" THEN message ELSE error
    /\ processingRef' = GuardAfter(outcome)
    /\ isProcessing' = FALSE

\* page.tsx:57-88 and 113-141: /api/speech answers
TranscribeFails(s, r) ==
    /\ s \in 1..Len(segs)
    /\ segs[s].pc = "transcribing"
    /\ r.stage = "transcribe" /\ r.kind \in {"fail", "throw"}
    /\ response' = r
    /\ IF r.kind = "throw"
       THEN EndInvocation(s, "error", CatchMessage(r))
       ELSE IF segs[s].setup
       THEN IF IsSetupQualityFailure(r.error)
            THEN EndInvocation(s, "quality", "")
            ELSE EndInvocation(s, "error", UserFriendlyError(r))
       ELSE IF IsSteadyQualityFailure(r.error)
            THEN EndInvocation(s, "quality", "")
            ELSE EndInvocation(s, "error", SteadyErrorMessage(r))
    /\ Elapse
    /\ UNCHANGED ttsVars
    /\ UNCHANGED <<supportedLanguages, transcribedText, translatedText,
                   messages, isInitialSetup, closure>>

TranscribeSucceeds(s, text, language) ==
    /\ s \in 1..Len(segs)
    /\ segs[s].pc = "transcribing"
    /\ response' = Answer("transcribe", "ok", "", "", TRUE)
    /\ transcribedText' = text
    /\ segs' = [segs EXCEPT ![s] =
         IF NextCall(@.setup) = "detecting"
         THEN [@ EXCEPT !.pc = "detecting", !.text = text, !.before = <<>>,
                        !.language = language, !.nDetect = @ + 1]
         ELSE [@ EXCEPT !.pc = "translating", !.text = text, !.before = <<>>,
                        !.language = language, !.nTranslate = @ + 1]]
    /\ Elapse
    /\ UNCHANGED ttsVars
    /\ UNCHANGED <<processingRef, isProcessing, supportedLanguages, error,
                   translatedText, messages, isInitialSetup, closure>>

\* page.tsx:91-109: /api/language answers
DetectAnswers(s, r, sourceLanguage, targetLanguage) ==
    /\ s \in 1..Len(segs)
    /\ segs[s].pc = "detecting"
    /\ r.stage = "detect"
    /\ response' = Detected(r, sourceLanguage, targetLanguage)
    /\ isInitialSetup' = PhaseAfterDetect(r.kind = "ok", isInitialSetup)
    /\ IF r.kind = "ok"
       THEN /\ supportedLanguages' = DetectedPair(sourceLanguage, targetLanguage)
            /\ EndInvocation(s, "detected", "")
       ELSE /\ UNCHANGED supportedLanguages
            /\ IF r.kind = "throw"
               THEN EndInvocation(s, "error", CatchMessage(r))
               ELSE EndInvocation(s, "error", DetectErrorMessage(r))
    /\ Elapse
    /\ UNCHANGED ttsVars
    /\ UNCHANGED <<transcribedText, translatedText, messages, closure>>

\* page.tsx:133-141: translateText calls onPartial
TranslatePartial(s, k) ==
    /\ s \in 1..Len(segs)
    /\ segs[s].pc = "translating"
    /\ StreamsPartial(segs[s].sent, k)
    /\ response' = Answer("translate", "partial", "", "", TRUE)
    /\ translatedText' = OnPartial(translatedText, Translation(k))
    /\ segs' = [segs EXCEPT ![s].sent = k]
    /\ UNCHANGED ttsVars
    /\ UNCHANGED <<processingRef, isProcessing, supportedLanguages, error,
                   transcribedText, messages, isInitialSetup, closure, now>>

\* page.tsx:133-153: translateText resolves with the complete translation,
\* of which every partial translation was a prefix
TranslateSucceeds(s, n) ==
    /\ s \in 1..Len(segs)
    /\ segs[s].pc = "translating"
    /\ Resolves(segs[s].sent, n)
    /\ response' = Translated(n)
    /\ Elapse
    /\ messages' = AppendMessage(messages,
                      NewMessage(segs[s].text, Translation(n),
                                 segs[s].language, segs[s].langs, now'))
    /\ EndInvocation(s, "translated", "")
    /\ UNCHANGED ttsVars
    /\ UNCHANGED <<supportedLanguages, transcribedText, translatedText,
                   isInitialSetup, closure>>

\* page.tsx:133-141, 154-156: translateText rejects
TranslateFails(s, r) ==
    /\ s \in 1..Len(segs)
    /\ segs[s].pc = "translating"
    /\ r.stage = "translate" /\ r.kind = "throw"
    /\ response' = r
    /\ EndInvocation(s, "error", CatchMessage(r))
    /\ Elapse
    /\ UNCHANGED ttsVars
    /\ UNCHANGED <<supportedLanguages, transcribedText, translatedText,
                   messages, isInitialSetup, closure>>

TranscribeFailures ==
    {Answer("transcribe", "fail", e, d, TRUE) : e \in TranscribeErrors, d \in Details}
        \cup {Answer("transcribe", "throw", "Failed to fetch", "", TRUE)}

DetectAnswerSet ==
    {Answer("detect", "ok", "", "", TRUE)}
        \cup {Answer("detect", "fail", e, "", TRUE) : e \in DetectErrors}
        \cup {Answer("detect", "throw", "Unexpected token < in JSON", "", TRUE)}

TranslateFailures ==
    {Answer("translate", "throw", "Translation failed", "", TRUE),
     Answer("translate", "throw", "", "", FALSE)}

Respond(s) ==
    \/ \E r \in TranscribeFailures : TranscribeFails(s, r)
    \/ \E u \in Utterances : TranscribeSucceeds(s, u.text, u.language)
    \/ \E r \in DetectAnswerSet, a \in Languages :
          \E b \in Languages \ {a} : DetectAnswers(s, r, a, b)
    \/ \E n \in 1..MaxWords : TranslateSucceeds(s, n)
    \/ \E r \in TranslateFailures : TranslateFails(s, r)

Next ==
    \/ \E size \in AudioSizes : Deliver(size)
    \/ \E s \in 1..MaxSegments : Respond(s)
    \/ \E s \in 1..MaxSegments, k \in 1..MaxWords : TranslatePartial(s, k)
    \/ Render

Spec == Init /\ [][Next]_vars

\* every remote call answers, and React renders a pending update
FairSpec ==
    /\ Spec
    /\ \A s \in 1..MaxSegments : WF_vars(Respond(s))
    /\ WF_vars(Render)

(***************************************************************************)
(* Speech synthesis: LanguageSelector (language-selector.tsx).             *)
(*                                                                         *)
(* A request is one invocation of playTranslatedText.  Its entry holds its *)
(* position (pc), the text it captured, its AbortController's signal, its  *)
(* Audio element and its object URL; a ref holds the number of the request *)
(* whose object it points to.  isTTSEnabled is true, as Home creates it    *)
(* (page.tsx:33).                                                          *)
(***************************************************************************)
Reqs == 1..Len(reqs)

\* language-selector.tsx:200-215: the fetch of q, or the reading of its
\* body, is awaited and its signal is not aborted
Fetching(q) ==
    reqs[q].pc \in {"fetching", "reading"} /\ reqs[q].signal = "live"

\* the signal of q was aborted while q awaits fetch or blob: the await has
\* rejected and the catch of q runs before any other task
Unwinding(q) ==
    reqs[q].pc \in {"fetching", "reading"} /\ reqs[q].signal = "aborted"

Settled == \A q \in Reqs : ~Unwinding(q)

\* abort() left out of cleanupAudio
AfterAbortKept(signal) == signal

\* language-selector.tsx:150-153: abortControllerRef.current.abort()
AfterAbort(signal) == IF signal = "live" THEN "aborted" ELSE signal

\* language-selector.tsx:156-172: pause(), src = '', load()
AfterPause(audio) == "emptied"

\* language-selector.tsx:175-178: URL.revokeObjectURL
AfterRevoke(url) == "revoked"

\* language-selector.tsx:148-178: what cleanupAudio does to the objects the
\* three refs point to; an element without handlers fires no canplaythrough
Cleaned ==
    [q \in Reqs |->
        [reqs[q] EXCEPT
            !.signal = IF q = abortControllerRef THEN AfterAbort(@) ELSE @,
            !.audio = IF q = audioRef THEN AfterPause(@) ELSE @,
            !.ready = IF q = audioRef THEN FALSE ELSE @,
            !.url = IF q = audioUrlRef THEN AfterRevoke(@) ELSE @]]

\* language-selector.tsx:148-182: cleanupAudio, where rs is Cleaned with what
\* the caller does next
cleanupAudio(rs) ==
    /\ reqs' = rs
    /\ audioRef' = NoRef
    /\ audioUrlRef' = NoRef
    /\ abortControllerRef' = NoRef
    /\ isPlaying' = FALSE
    /\ isLoadingAudio' = FALSE

\* language-selector.tsx:185, over the values the closure c captured
ReturnsAtOnce(c) ==
    c.translatedText = EmptyText \/ c.isPlaying \/ c.isLoadingAudio

\* the give-up test one iteration late
GivesUpLate(i) == i = MaxPlayAttempts

\* language-selector.tsx:262: if (i === 2) throw error
GivesUp(i) == i = MaxPlayAttempts - 1

\* language-selector.tsx:263: 100 * Math.pow(2, i)
RetryDelay(i) == FirstRetryDelay * 2^i

\* catch that cleans up unless the fetch was aborted
CleansUpUnlessAborted(name) == name # "AbortError"

\* language-selector.tsx:283-290: the catch calls cleanupAudio whatever the
\* name of the error is
CleansUpInCatch(name) == TRUE

BlobTypes == {"audio/mpeg", "application/json"}

\* language-selector.tsx:218: audioBlob.type.startsWith('audio/')
IsAudio(type) == type = "audio/mpeg"

\* the values of one render of LanguageSelector
Rendered ==
    [isPlaying |-> isPlaying, isLoadingAudio |-> isLoadingAudio,
     translatedText |-> translatedText]

\* playTranslatedText returns: its locals (i, the waits made) are gone
Returns(req, outcome) ==
    [req EXCEPT !.pc = "done", !.outcome = outcome,
                !.i = 0, !.attempts = 0, !.waits = <<>>]

\* language-selector.tsx:184-192: the entry of a new invocation: its
\* position, its AbortController's signal, its Audio element (ready once
\* canplaythrough has fired), its object URL and the locals of its loop
Invoked ==
    [pc |-> "resuming", outcome |-> "",
     signal |-> "none", audio |-> "none", url |-> "none",
     i |-> 0, attempts |-> 0, waits |-> <<>>, ready |-> FALSE]

\* language-selector.tsx:184-192: playTranslatedText is called with the
\* values closure c captured; it returns at once or awaits the resumption
\* of the audio context and the silent audio
playTranslatedText(c) ==
    /\ Len(reqs) < MaxRequests
    /\ reqs' = Append(reqs, IF ReturnsAtOnce(c)
                            THEN Returns(Invoked, "returned")
                            ELSE Invoked)
    /\ UNCHANGED <<isPlaying, isLoadingAudio, audioRef, audioUrlRef,
                   abortControllerRef, caught>>

\* a cleanup that leaves the timer of the last run pending
ClearTimeoutNot(ts) == ts

\* language-selector.tsx:133: the cleanup of the playback effect,
\* clearTimeout of the timer its last run set
ClearTimeout(ts) ==
    IF ts = <<>> THEN ts ELSE SubSeq(ts, 1, Len(ts) - 1)

\* language-selector.tsx:119-131: setTimeout over the closure c of this
\* render
SetTimeout(ts, c) == Append(ts, [closure |-> c, due |-> now + DebounceWait])

\* language-selector.tsx:89-94: the effect of isTTSEnabled
EnableTime(enabled) == IF enabled THEN now ELSE ttsEnableTimeRef

\* a playback effect that does not compare the two times
shouldPlayTTSAlways(last, enable) == TRUE

\* language-selector.tsx:108
shouldPlayTTS(last, enable) == last >= enable

\* language-selector.tsx:104-133: the playback effect of a render whose
\* translatedText or isTTSEnabled changed, run after the cleanup of its last
\* run and after the two effects that write the time refs (last, enable)
PlaybackEffect(c, enabled, last, enable) ==
    timers' = IF /\ c.translatedText # EmptyText
                 /\ enabled
                 /\ shouldPlayTTS(last, enable)
              THEN SetTimeout(ClearTimeout(timers), c)
              ELSE ClearTimeout(timers)

\* page.tsx:137-139 and language-selector.tsx:96-133: Home hands over a new
\* translatedText; LanguageSelector renders, the effect of translatedText
\* notes the time, the playback effect clears the pending timer and sets a
\* new one over the closure of this render
TranslationArrives(n) ==
    /\ Settled
    /\ Translation(n) # translatedText
    /\ translatedText' = Translation(n)
    /\ selector' = [Rendered EXCEPT !.translatedText = Translation(n)]
    /\ lastTranslationTimeRef' = now
    /\ PlaybackEffect(selector', isTTSEnabled, now, ttsEnableTimeRef)
    /\ UNCHANGED <<isTTSEnabled, ttsEnableTimeRef>>
    /\ UNCHANGED <<isPlaying, isLoadingAudio, audioRef, audioUrlRef,
                   abortControllerRef, caught, reqs>>
    /\ UNCHANGED pipelineVars

\* page.tsx:203 and language-selector.tsx:89-133: the voice button flips
\* isTTSEnabled; LanguageSelector renders, the effect of isTTSEnabled notes
\* the time of an enabling, and the playback effect runs again
ToggleTTS ==
    /\ Settled
    /\ isTTSEnabled' = ~isTTSEnabled
    /\ selector' = Rendered
    /\ ttsEnableTimeRef' = EnableTime(isTTSEnabled')
    /\ PlaybackEffect(selector', isTTSEnabled', lastTranslationTimeRef,
                      ttsEnableTimeRef')
    /\ UNCHANGED lastTranslationTimeRef
    /\ UNCHANGED <<isPlaying, isLoadingAudio, audioRef, audioUrlRef,
                   abortControllerRef, caught, reqs>>
    /\ UNCHANGED <<pipelineVars, translatedText>>

\* Time passes while the voice is muted.  The clock is read by an enabling
\* (lines 91, 108), which compares it with the time of the last translation,
\* and by a timer (line 129), whose firing is the step that lets its wait
\* pass; so time need only pass here after a translation that arrived muted.
Tick ==
    /\ Settled
    /\ now < MaxTicks * DebounceWait
    /\ ~isTTSEnabled
    /\ translatedText # EmptyText
    /\ now = lastTranslationTimeRef
    /\ now' = now + DebounceWait
    /\ UNCHANGED <<homeVars, translatedText, ttsVars>>

\* React renders LanguageSelector again after a state setter
SelectorRender ==
    /\ Settled
    /\ selector # Rendered
    /\ selector' = Rendered
    /\ UNCHANGED <<isPlaying, isLoadingAudio, audioRef, audioUrlRef,
                   abortControllerRef, debounceVars, caught, reqs>>
    /\ UNCHANGED <<pipelineVars, translatedText>>

\* language-selector.tsx:122-126: the text of the timer's render ends a
\* sentence; the whole translation does, a partial one does not
EndsSentence(text) == Len(text) = MaxWords

\* the clock when a timer that is due at the given time fires
FiresAt(due) == IF now < due THEN due ELSE now

\* language-selector.tsx:119-129: the wait of a timer is over and it fires;
\* previousTranslatedTextRef holds the text of the last render
TimerFires ==
    /\ Settled
    /\ \E k \in DOMAIN timers :
          /\ now' = FiresAt(timers[k].due)
          /\ IF \/ EndsSentence(timers[k].closure.translatedText)
                \/ timers[k].closure.translatedText = translatedText
             THEN playTranslatedText(timers[k].closure)
             ELSE UNCHANGED <<isPlaying, isLoadingAudio, audioRef,
                              audioUrlRef, abortControllerRef, caught, reqs>>
          /\ timers' = [j \in 1..(Len(timers) - 1) |->
                           timers[IF j < k THEN j ELSE j + 1]]
    /\ UNCHANGED <<selector, isTTSEnabled, ttsEnableTimeRef,
                   lastTranslationTimeRef>>
    /\ UNCHANGED <<homeVars, translatedText>>

\* language-selector.tsx:338-341: the play button, enabled in the last render
Click ==
    /\ Settled
    /\ isTTSEnabled
    /\ selector.translatedText # EmptyText
    /\ ~(selector.isPlaying \/ selector.isLoadingAudio \/ isProcessing)
    /\ playTranslatedText(selector)
    /\ UNCHANGED <<selector, debounceVars>>
    /\ UNCHANGED <<pipelineVars, translatedText>>

\* language-selector.tsx:283-290: the catch of request r, entered with an
\* error of the given name
Catch(r, name) ==
    /\ caught' = name
    /\ IF CleansUpInCatch(name)
       THEN cleanupAudio([Cleaned EXCEPT ![r] = Returns(@, "failed")])
       ELSE /\ reqs' = [reqs EXCEPT ![r] = Returns(@, "failed")]
            /\ UNCHANGED <<isPlaying, isLoadingAudio, audioRef, audioUrlRef,
                           abortControllerRef>>

\* language-selector.tsx:192-209: the awaits before cleanupAudio are over;
\* cleanupAudio, setIsLoadingAudio(true), a new AbortController, fetch
Resumed(r) ==
    /\ Settled
    /\ r \in Reqs
    /\ reqs[r].pc = "resuming"
    /\ reqs' = [Cleaned EXCEPT ![r].pc = "fetching", ![r].signal = "live"]
    /\ audioRef' = NoRef
    /\ audioUrlRef' = NoRef
    /\ abortControllerRef' = r
    /\ isPlaying' = FALSE
    /\ isLoadingAudio' = TRUE
    /\ UNCHANGED <<selector, debounceVars, caught>>
    /\ UNCHANGED <<pipelineVars, translatedText>>

\* language-selector.tsx:200-213: /api/speech/tts answers, or fetch rejects
\* (status 0)
FetchAnswers(r, status) ==
    /\ Settled
    /\ r \in Reqs
    /\ reqs[r].pc = "fetching"
    /\ IF status = 200
       THEN /\ reqs' = [reqs EXCEPT ![r].pc = "reading"]
            /\ UNCHANGED <<isPlaying, isLoadingAudio, audioRef, audioUrlRef,
                           abortControllerRef, caught>>
       ELSE Catch(r, IF status = 0 THEN "Failed to fetch"
                     ELSE "Failed to generate speech")
    /\ UNCHANGED <<selector, debounceVars>>
    /\ UNCHANGED <<pipelineVars, translatedText>>

\* language-selector.tsx:215-259: the body is read; an audio blob gets an
\* object URL and an Audio element with its handlers, and play() is called
BlobRead(r, type) ==
    /\ Settled
    /\ r \in Reqs
    /\ reqs[r].pc = "reading"
    /\ IF IsAudio(type)
       THEN /\ reqs' = [reqs EXCEPT ![r].pc = "play", ![r].url = "live",
                                    ![r].audio = "loaded", ![r].attempts = 1]
            /\ audioUrlRef' = r
            /\ audioRef' = r
            /\ UNCHANGED <<isPlaying, isLoadingAudio, abortControllerRef,
                           caught>>
       ELSE Catch(r, "Invalid audio format")
    /\ UNCHANGED <<selector, debounceVars>>
    /\ UNCHANGED <<pipelineVars, translatedText>>

\* language-selector.tsx:200-215, 283-290: the signal of r was aborted while
\* r awaited fetch or blob
Aborted(r) ==
    /\ r \in Reqs
    /\ Unwinding(r)
    /\ Catch(r, "AbortError")
    /\ UNCHANGED <<selector, debounceVars>>
    /\ UNCHANGED <<pipelineVars, translatedText>>

\* language-selector.tsx:230-233: the Audio element fires canplaythrough
CanPlayThrough(r) ==
    /\ Settled
    /\ r \in Reqs
    /\ reqs[r].audio \in {"loaded", "playing"} /\ ~reqs[r].ready
    /\ reqs' = [reqs EXCEPT ![r].ready = TRUE]
    /\ isLoadingAudio' = FALSE
    /\ isPlaying' = TRUE
    /\ UNCHANGED <<audioRef, audioUrlRef, abortControllerRef, selector,
                   debounceVars, caught>>
    /\ UNCHANGED <<pipelineVars, translatedText>>

\* language-selector.tsx:259-260: play() resolves, the loop is left and
\* playTranslatedText returns
PlayResolves(r) ==
    /\ Settled
    /\ r \in Reqs
    /\ reqs[r].pc = "play"
    /\ reqs[r].audio = "loaded"
    /\ reqs' = [reqs EXCEPT ![r] =
                   [Returns(@, "played") EXCEPT !.audio = "playing"]]
    /\ UNCHANGED <<isPlaying, isLoadingAudio, audioRef, audioUrlRef,
                   abortControllerRef, selector, debounceVars, caught>>
    /\ UNCHANGED <<pipelineVars, translatedText>>

\* language-selector.tsx:261-263, 271-290: play() rejects (the browser does
\* not allow it, or the element was paused and emptied meanwhile)
PlayRejects(r) ==
    /\ Settled
    /\ r \in Reqs
    /\ reqs[r].pc = "play"
    /\ IF GivesUp(reqs[r].i)
       THEN /\ cleanupAudio([Cleaned EXCEPT ![r] = Returns(@, "failed")])
            /\ caught' = "play() rejected"
       ELSE /\ reqs' = [reqs EXCEPT ![r].pc = "waiting",
                           ![r].waits = Append(@, RetryDelay(reqs[r].i))]
            /\ UNCHANGED <<isPlaying, isLoadingAudio, audioRef, audioUrlRef,
                           abortControllerRef, caught>>
    /\ UNCHANGED <<selector, debounceVars>>
    /\ UNCHANGED <<pipelineVars, translatedText>>

\* language-selector.tsx:257-268: the wait is over, the audio context and
\* the silent audio are resumed, i++, and play() is called again if i < 3
WaitElapses(r) ==
    /\ Settled
    /\ r \in Reqs
    /\ reqs[r].pc = "waiting"
    /\ reqs' = [reqs EXCEPT ![r] =
          IF @.i + 1 < MaxPlayAttempts
          THEN [@ EXCEPT !.pc = "play", !.i = @ + 1, !.attempts = @ + 1]
          ELSE Returns(@, "left")]
    /\ UNCHANGED <<isPlaying, isLoadingAudio, audioRef, audioUrlRef,
                   abortControllerRef, selector, debounceVars, caught>>
    /\ UNCHANGED <<pipelineVars, translatedText>>

\* language-selector.tsx:235-247: the playing audio ends (onended), or the
\* element reports an error (onerror); both handlers call cleanupAudio
AudioStops(r) ==
    /\ Settled
    /\ r \in Reqs
    /\ reqs[r].audio \in {"loaded", "playing"}
    /\ cleanupAudio(Cleaned)
    /\ UNCHANGED <<selector, debounceVars, caught>>
    /\ UNCHANGED <<pipelineVars, translatedText>>

Statuses == {200, 500, 0}

Proceed(r) ==
    \/ Resumed(r)
    \/ \E status \in Statuses : FetchAnswers(r, status)
    \/ \E type \in BlobTypes : BlobRead(r, type)
    \/ Aborted(r)
    \/ PlayResolves(r)
    \/ PlayRejects(r)
    \/ WaitElapses(r)

TtsNext ==
    \/ \E n \in 1..MaxWords : TranslationArrives(n)
    \/ SelectorRender
    \/ TimerFires
    \/ Click
    \/ \E r \in 1..MaxRequests : Proceed(r)
    \/ \E r \in 1..MaxRequests : CanPlayThrough(r)
    \/ \E r \in 1..MaxRequests : AudioStops(r)

TtsSpec == Init /\ [][TtsNext]_vars

\* The debounce of the automatic playback (language-selector.tsx:89-133)
\* with the voice button: translations arrive, the voice is muted and
\* enabled, time passes, timers fire and the play button is clicked.  The
\* requests they invoke stay at their first await: no step of a request
\* reads or writes a timer, the voice flag or a time ref.
DebounceNext ==
    \/ \E n \in 1..MaxWords : TranslationArrives(n)
    \/ ToggleTTS
    \/ Tick
    \/ TimerFires
    \/ Click

DebounceSpec == Init /\ [][DebounceNext]_vars

(***************************************************************************)
(* Properties.                                                             *)
(***************************************************************************)
Segs == 1..Len(segs)

\* the invocations that have a remote call outstanding
InFlight == {s \in Segs : segs[s].pc \in Running}

\* this step delivers a segment
Delivers == Len(segs') = Len(segs) + 1

PipelineState ==
    <<isInitialSetup, supportedLanguages, messages, transcribedText,
      translatedText, error, isProcessing>>

\* C1: at most one invocation of processAudio has a remote call outstanding;
\* a segment delivered while processingRef is held is dropped: it makes no
\* call, changes nothing, and is never processed later.
C1_MutualExclusion ==
    /\ [](Cardinality(InFlight) <= 1)
    /\ [][/\ (Delivers /\ processingRef) =>
               /\ segs'[Len(segs')].pc = "dropped"
               /\ InFlight' = InFlight
               /\ UNCHANGED <<PipelineState, processingRef>>
          /\ \A s \in Segs : segs[s].pc = "dropped" => segs'[s] = segs[s]]_vars

C1_Witness ==
    \E s \in Segs, t \in Segs :
        /\ s < t
        /\ segs[s].pc \in Running
        /\ segs[t].pc = "dropped"
        /\ segs[t].size >= 15000

\* C2: once two languages are stored, supportedLanguages keeps them, in the
\* same order, in every later state.
C2_PairNeverChanges ==
    [][Len(supportedLanguages) = 2 => supportedLanguages' = supportedLanguages]_vars

\* C3: the phase starts as AwaitingLanguagePair (isInitialSetup), changes only
\* from AwaitingLanguagePair to Steady, only in the step in which the detection
\* call of a segment whose transcription succeeded answers with success, and
\* so changes at most once and never back; nor does the phase that a render
\* hands to processAudio ever go back.
C3_PhaseChangesOnce ==
    /\ isInitialSetup = TRUE
    /\ [][~closure.isInitialSetup => ~closure'.isInitialSetup]_vars
    /\ [][isInitialSetup' # isInitialSetup =>
            /\ isInitialSetup /\ ~isInitialSetup'
            /\ response'.stage = "detect" /\ response'.kind = "ok"
            /\ \E s \in Segs :
                  /\ segs[s].pc = "detecting" /\ segs'[s].pc = "done"
                  /\ segs[s].text \in {u.text : u \in Utterances}
                  /\ Len(supportedLanguages') = 2]_vars

C3_Witness ==
    /\ ~isInitialSetup
    /\ \E s \in Segs : segs[s].outcome = "detected"

\* C4: every invocation that holds the guard releases it, whatever the
\* outcome, when every remote call answers; and a segment of at least 15000
\* bytes delivered while the guard is free is accepted.
C4_GuardReleased ==
    /\ processingRef ~> ~processingRef
    /\ [][\A s \in Segs :
            (segs[s].pc \in Running /\ segs'[s].pc = "done") => ~processingRef']_vars
    /\ [][(Delivers /\ ~processingRef /\ segs'[Len(segs')].size >= 15000) =>
            /\ segs'[Len(segs')].pc = "transcribing"
            /\ processingRef']_vars

\* a segment accepted after an early return and after a caught error
C4_Witness ==
    \E q \in Segs, e \in Segs, t \in Segs :
        /\ segs[q].outcome = "quality"
        /\ segs[e].outcome = "error"
        /\ t > q /\ t > e
        /\ segs[t].pc \in Running
        /\ processingRef

\* C5: a segment of less than 15000 bytes makes no remote call, does not
\* acquire the guard and changes no pipeline state.
C5_ShortSegmentIgnored ==
    /\ [](\A s \in Segs : segs[s].size < 15000 =>
            /\ segs[s].pc \in {"ignored", "dropped"}
            /\ segs[s].nTranscribe = 0
            /\ segs[s].nDetect = 0
            /\ segs[s].nTranslate = 0)
    /\ [][(Delivers /\ segs'[Len(segs')].size < 15000) =>
            /\ UNCHANGED <<PipelineState, processingRef>>
            /\ InFlight' = InFlight]_vars

C5_Witness ==
    \E s \in Segs :
        /\ segs[s].pc = "ignored"
        /\ segs[s].size = 14999
        /\ ~processingRef

\* C6: a step leaves the log as it is or adds one message at its end; the
\* message added carries the time at which its segment completed, so the log
\* is in the order of completion.
C6_AppendOnly ==
    /\ [][\/ messages' = messages
          \/ /\ Len(messages') = Len(messages) + 1
             /\ SubSeq(messages', 1, Len(messages)) = messages
             /\ messages'[Len(messages')].timestamp = now'
             /\ \E s \in Segs :
                   segs[s].pc = "translating" /\ segs'[s].pc = "done"]_vars
    /\ [](\A i \in 1..Len(messages), j \in 1..Len(messages) :
            i < j => messages[i].timestamp <= messages[j].timestamp)
    /\ [][now <= now']_vars

C6_Witness ==
    /\ Len(messages) >= 2
    /\ messages[1].timestamp < messages[2].timestamp

\* C7: a partial update sets the displayed translation to that partial, and
\* a segment whose translation completes appends exactly one message, of the
\* transcribed text and of the translation the call resolved with; only an
\* invocation that read the Steady phase translates.
C7_PartialReplacesFinalLogged ==
    [][\A s \in Segs :
        /\ ( /\ segs[s].pc = "translating" /\ segs'[s].pc = "translating"
             /\ segs'[s].sent # segs[s].sent ) =>
              /\ ~segs[s].setup
              /\ response'.kind = "partial"
              /\ translatedText' = Translation(segs'[s].sent)
              /\ messages' = messages
        /\ (segs[s].pc = "translating" /\ segs'[s].outcome = "translated") =>
              /\ ~segs[s].setup
              /\ Len(messages') = Len(messages) + 1
              /\ SubSeq(messages', 1, Len(messages)) = messages
              /\ messages'[Len(messages')].originalText = segs[s].text
              /\ messages'[Len(messages')].translatedText
                    = Translation(response'.words)]_vars

\* a segment completed after two partial updates, the second of them the
\* complete translation
C7_Witness ==
    /\ Len(messages) >= 1
    /\ response.kind = "ok" /\ response.stage = "translate"
    /\ translatedText = Translation(2)
    /\ messages[Len(messages)].translatedText = Translation(2)
    /\ messages[Len(messages)].originalText = transcribedText

\* C8: when a Steady segment completes, the displayed translation equals the
\* translatedText of the message appended for it.
C8_DisplayedEqualsLogged ==
    [][\A s \in Segs :
        (segs[s].pc = "translating" /\ segs'[s].outcome = "translated") =>
            translatedText' = messages'[Len(messages')].translatedText]_vars

\* C9: a transcription failure of a quality category of the segment's phase
\* (the phase its invocation read at page.tsx:55) ends the segment with no
\* message, phase and pair unchanged, no error displayed and no further
\* remote call.
C9_QualityFailureSilent ==
    [][\A s \in Segs :
        /\ ( /\ segs[s].pc = "transcribing" /\ segs'[s].pc = "done"
             /\ response'.kind = "fail"
             /\ \/ /\ segs[s].setup
                   /\ response'.error \in {"Low quality speech detected",
                                           "No speech detected",
                                           "Speech too short"}
                \/ /\ ~segs[s].setup
                   /\ response'.error \in {"Low quality speech detected",
                                           "No speech detected",
                                           "Transcription too short"} ) =>
              /\ messages' = messages
              /\ isInitialSetup' = isInitialSetup
              /\ supportedLanguages' = supportedLanguages
              /\ error' = Null
              /\ segs'[s].nTranscribe = 1
              /\ segs'[s].nDetect = 0
              /\ segs'[s].nTranslate = 0
        /\ segs[s].pc = "done" => segs'[s] = segs[s]]_vars

C9_Witness ==
    \E s \in Segs, t \in Segs :
        /\ segs[s].setup /\ segs[s].outcome = "quality"
        /\ ~segs[t].setup /\ segs[t].outcome = "quality"
        /\ response.error = "Transcription too short"
        /\ error = Null

Ends(s) == segs[s].pc \in Running /\ segs'[s].pc = "done"

\* the answer of this step is a quality failure of the transcription, of the
\* categories of the phase invocation s read
QualityAnswer(s) ==
    /\ response'.stage = "transcribe" /\ response'.kind = "fail"
    /\ \/ /\ segs[s].setup
          /\ response'.error \in {"Low quality speech detected",
                                  "No speech detected", "Speech too short"}
       \/ /\ ~segs[s].setup
          /\ response'.error \in {"Low quality speech detected",
                                  "No speech detected",
                                  "Transcription too short"}

\* C11: a failure that is not a quality failure (a failed or rejected
\* transcription, detection or translation call) ends the segment with a
\* non-empty error displayed, no message appended, phase and pair unchanged
\* and the guard free.
C11_FailureShown ==
    [][\A s \in Segs :
        ( /\ Ends(s)
          /\ response'.kind \in {"fail", "throw"}
          /\ ~QualityAnswer(s) ) =>
            /\ error' # Null /\ error' # ""
            /\ messages' = messages
            /\ isInitialSetup' = isInitialSetup
            /\ supportedLanguages' = supportedLanguages
            /\ ~processingRef']_vars

\* C12: in both phases a failed transcription of category Network
\* connection failed, API access blocked, Request timeout or Invalid audio
\* file displays the message of that category, and one of another category
\* that is not a quality failure displays details, else error.
C12_CategoryMessages ==
    [][\A s \in Segs :
        ( /\ Ends(s)
          /\ response'.stage = "transcribe" /\ response'.kind = "fail"
          /\ response'.error # ""
          /\ ~QualityAnswer(s) ) =>
            error' =
              IF response'.error = "Network connection failed"
                THEN NetworkMessage
              ELSE IF response'.error = "API access blocked"
                THEN BlockedMessage
              ELSE IF response'.error = "Request timeout"
                THEN TimeoutMessage
              ELSE IF response'.error = "Invalid audio file"
                THEN InvalidAudioMessage
              ELSE IF response'.details # "" THEN response'.details
              ELSE response'.error]_vars

\* C16: a segment makes at most one call of each kind; the detection call
\* is made only while the phase is AwaitingLanguagePair, by a segment
\* delivered in that phase, the translation call only while the phase is
\* Steady, by a segment delivered in that phase, and either only in the step
\* in which that segment's transcription answers with success.
C16_StageOrder ==
    /\ [](\A s \in Segs :
            /\ segs[s].nTranscribe <= 1
            /\ segs[s].nDetect <= 1
            /\ segs[s].nTranslate <= 1
            /\ segs[s].nDetect + segs[s].nTranslate <= segs[s].nTranscribe
            /\ segs[s].pc \in {"dropped", "ignored"} => segs[s].nTranscribe = 0)
    /\ [][\A s \in Segs :
            /\ segs'[s].nTranscribe = segs[s].nTranscribe
            /\ ( \/ segs'[s].nDetect # segs[s].nDetect
                 \/ segs'[s].nTranslate # segs[s].nTranslate ) =>
                  /\ segs[s].pc = "transcribing"
                  /\ response'.stage = "transcribe" /\ response'.kind = "ok"
            /\ segs'[s].nDetect # segs[s].nDetect =>
                  isInitialSetup /\ segs[s].before.isInitialSetup
            /\ segs'[s].nTranslate # segs[s].nTranslate =>
                  ~isInitialSetup /\ ~segs[s].before.isInitialSetup]_vars

\* C17: the step in which the detection of a setup segment succeeds stores
\* the two languages in the order returned, sets the phase to Steady and
\* appends no message; a message is only ever appended by an invocation that
\* read the Steady phase.
C17_SetupStoresPair ==
    [][\A s \in Segs :
        /\ ( /\ Ends(s) /\ segs[s].pc = "detecting"
             /\ response'.kind = "ok" ) =>
              /\ segs[s].setup
              /\ Len(response'.pair) = 2
              /\ supportedLanguages' = response'.pair
              /\ ~isInitialSetup'
              /\ messages' = messages
        /\ (segs[s].setup /\ segs[s].pc \in Running /\ segs'[s] # segs[s]) =>
              messages' = messages]_vars

C17_Witness ==
    /\ response.stage = "detect" /\ response.kind = "ok"
    /\ supportedLanguages = <<Spanish, English>>
    /\ ~isInitialSetup
    /\ messages = <<>>
    /\ ~processingRef

\* C18 as stated: a segment that ends in a quality failure leaves phase,
\* pair, log, displayed transcription, displayed translation and displayed
\* error as they were before it was delivered.
C18_QualityFailureNoChange ==
    [][\A s \in Segs :
        (Ends(s) /\ QualityAnswer(s)) =>
            /\ ~processingRef'
            /\ isInitialSetup' = segs[s].before.isInitialSetup
            /\ supportedLanguages' = segs[s].before.supportedLanguages
            /\ messages' = segs[s].before.messages
            /\ transcribedText' = segs[s].before.transcribedText
            /\ translatedText' = segs[s].before.translatedText
            /\ error' = segs[s].before.error]_vars

\* C18 as amended: all of these are as before the delivery but the displayed
\* error, which is null whatever it was.
C18_QualityFailureClearsError ==
    [][\A s \in Segs :
        (Ends(s) /\ QualityAnswer(s)) =>
            /\ ~processingRef'
            /\ isInitialSetup' = segs[s].before.isInitialSetup
            /\ supportedLanguages' = segs[s].before.supportedLanguages
            /\ messages' = segs[s].before.messages
            /\ transcribedText' = segs[s].before.transcribedText
            /\ translatedText' = segs[s].before.translatedText
            /\ error' = Null]_vars

\* a quality failure of the segment accepted next after one that ended with
\* an error displayed
C18_Witness ==
    \E s \in Segs, t \in Segs :
        /\ s < t
        /\ segs[s].outcome = "error"
        /\ segs[t].outcome = "quality"
        /\ \A u \in Segs : (s < u /\ u < t) => segs[u].pc = "ignored"
        /\ response.error = "Speech too short"
        /\ error = Null

\* C19: in the Steady phase two languages are stored; a Steady invocation
\* that awaits /api/speech sent the stored pair as its hint and one that
\* awaits translateText passed the stored pair.
C19_SteadyUsesStoredPair ==
    /\ ~isInitialSetup => Len(supportedLanguages) = 2
    /\ \A s \in Segs :
          /\ (~segs[s].setup /\ segs[s].pc = "transcribing") =>
                segs[s].hint = supportedLanguages
          /\ (~segs[s].setup /\ segs[s].pc = "translating") =>
                segs[s].langs = supportedLanguages

\* this step calls playTranslatedText for the r-th time
Invokes(r) == Len(reqs) = r - 1 /\ Len(reqs') = r

\* this step starts the fetch of request r
StartsFetch(r) ==
    r \in Reqs /\ reqs[r].pc = "resuming" /\ reqs'[r].pc = "fetching"

\* the Audio element of q is loaded or playing
Sounding(q) == reqs[q].audio \in {"loaded", "playing"}

\* C13: when the auto-play timer of a newly arrived text calls
\* playTranslatedText while an earlier request is fetching or its audio is
\* playing, the call goes on to supersede it; when the fetch of a request
\* starts, the fetch of every other request is aborted and its audio
\* stopped; and an audio starts to play only while no later request has
\* started its fetch.
C13_Supersession ==
    [][\A r \in 1..MaxRequests :
        /\ ( /\ Invokes(r)
             /\ Len(timers') < Len(timers)
             /\ \E q \in Reqs : Fetching(q) \/ reqs[q].audio = "playing" ) =>
                reqs'[r].pc = "resuming"
        /\ StartsFetch(r) =>
              \A q \in Reqs \ {r} :
                  /\ reqs'[q].signal # "live"
                  /\ reqs'[q].audio \notin {"loaded", "playing"}
        /\ ( /\ r \in Reqs
             /\ reqs[r].audio # "playing"
             /\ reqs'[r].audio = "playing" ) => abortControllerRef = r]_vars

\* C14: at most one fetch is in flight un-aborted, at most one Audio element
\* is loaded or playing and at most one object URL is un-revoked, each the
\* one its ref points to; a request gets its controller, its URL and its
\* element only when no other request holds one.
C14_ExclusiveOwnership ==
    /\ [](\A q \in Reqs :
            /\ Fetching(q) => abortControllerRef = q
            /\ Sounding(q) => audioRef = q
            /\ reqs[q].url = "live" => audioUrlRef = q
            /\ \A r \in Reqs \ {q} :
                  /\ ~(Fetching(q) /\ Fetching(r))
                  /\ ~(Sounding(q) /\ Sounding(r))
                  /\ ~(reqs[q].url = "live" /\ reqs[r].url = "live"))
    /\ [][\A r \in Reqs :
            /\ StartsFetch(r) =>
                  \A q \in Reqs \ {r} :
                      /\ reqs'[q].signal # "live"
                      /\ ~reqs'[q].audio \in {"loaded", "playing"}
                      /\ reqs'[q].url # "live"
            /\ (reqs[r].audio = "none" /\ reqs'[r].audio = "loaded") =>
                  /\ audioRef = NoRef /\ audioUrlRef = NoRef
                  /\ \A q \in Reqs : ~Sounding(q) /\ reqs[q].url # "live"]_vars

\* the second request plays after it took over from the first, which was
\* playing
C14_Witness ==
    /\ Len(reqs) = 2
    /\ reqs[1].outcome = "played" /\ reqs[1].audio = "emptied"
    /\ reqs[1].url = "revoked" /\ reqs[1].signal = "aborted"
    /\ reqs[2].audio = "playing" /\ reqs[2].url = "live"
    /\ audioRef = 2 /\ audioUrlRef = 2 /\ abortControllerRef = 2

\* C15: a request calls audio.play() at most 3 times; it has waited 100 ms
\* after the first failure and 200 ms after the second; once play() has
\* succeeded or failed for the third time the request is over and calls it
\* no more, and after the third failure its element, URL and controller are
\* released.
C15_BoundedRetry ==
    /\ [](\A r \in Reqs :
            /\ reqs[r].attempts <= 3
            /\ reqs[r].waits \in {<<>>, <<100>>, <<100, 200>>}
            /\ reqs[r].pc = "play" => Len(reqs[r].waits) = reqs[r].attempts - 1
            /\ reqs[r].pc = "waiting" => Len(reqs[r].waits) = reqs[r].attempts
            /\ reqs[r].pc \notin {"play", "waiting"} => reqs[r].attempts = 0)
    /\ [][\A r \in Reqs :
            /\ reqs'[r].attempts > reqs[r].attempts =>
                  /\ reqs'[r].attempts = reqs[r].attempts + 1
                  /\ reqs[r].pc \in {"reading", "waiting"}
                  /\ reqs'[r].pc = "play"
            /\ reqs[r].pc = "done" => reqs'[r].pc = "done"
            /\ (reqs[r].pc = "play" /\ reqs'[r].audio = "playing") =>
                  reqs'[r].pc = "done"
            /\ ( /\ reqs[r].pc = "play" /\ reqs[r].attempts = 3
                 /\ reqs'[r].pc # "play" /\ reqs'[r].audio # "playing" ) =>
                  /\ reqs'[r].pc = "done" /\ reqs'[r].outcome = "failed"
                  /\ reqs'[r].audio = "emptied"
                  /\ reqs'[r].url = "revoked"
                  /\ audioRef' = NoRef /\ audioUrlRef' = NoRef
                  /\ abortControllerRef' = NoRef]_vars

\* a request that gave up after its third attempt, and one at its third
\* attempt
C15_Witness ==
    /\ Len(reqs) = 2
    /\ reqs[1].outcome = "failed" /\ reqs[1].audio = "emptied"
    /\ caught = "play() rejected"
    /\ reqs[2].pc = "play" /\ reqs[2].attempts = 3
    /\ reqs[2].waits = <<100, 200>>

\* C20: the step in which a request ends in failure (response not ok,
\* blob not audio, fetch aborted or rejected, play() rejected for the last
\* time) leaves the three refs null and isPlaying and isLoadingAudio false,
\* and the request holds no live controller, element or URL.
C20_FailureReleases ==
    [][\A r \in Reqs :
        ( /\ reqs[r].pc # "done"
          /\ reqs'[r].pc = "done" /\ reqs'[r].outcome = "failed" ) =>
            /\ audioRef' = NoRef
            /\ audioUrlRef' = NoRef
            /\ abortControllerRef' = NoRef
            /\ ~isPlaying' /\ ~isLoadingAudio'
            /\ reqs'[r].signal # "live"
            /\ reqs'[r].audio \notin {"loaded", "playing"}
            /\ reqs'[r].url # "live"]_vars

\* the first request was aborted by the second, whose response was not ok
C20_Witness ==
    /\ Len(reqs) = 2
    /\ reqs[1].outcome = "failed" /\ reqs[2].outcome = "failed"
    /\ reqs[1].signal = "aborted" /\ reqs[2].signal = "aborted"
    /\ caught = "AbortError"
    /\ audioRef = NoRef /\ audioUrlRef = NoRef /\ abortControllerRef = NoRef
    /\ ~isPlaying /\ ~isLoadingAudio

\* the codes of the stored language pair
PairCodes == {supportedLanguages[i].code : i \in 1..Len(supportedLanguages)}

\* C23: every message of a segment spoken in one of the two languages of the
\* stored pair has a source code and a target code that differ and that are
\* both codes of the pair.
C23_MessageLanguages ==
    \A k \in 1..Len(messages) :
        messages[k].sourceLang \in PairCodes =>
            /\ messages[k].targetLang \in PairCodes
            /\ messages[k].sourceLang # messages[k].targetLang

\* this step ends request q in its catch
Catches(q) ==
    /\ q \in Reqs
    /\ reqs[q].pc # "done"
    /\ reqs'[q].pc = "done" /\ reqs'[q].outcome = "failed"

\* C22: the step in which a request that was aborted by a later request's
\* start handles its abort leaves the fetch of every other request un-aborted
\* and the Audio element of every other request loaded or playing.
C22_SuccessorSurvives ==
    [][\A q \in Reqs :
        (Catches(q) /\ Unwinding(q)) =>
            \A r \in Reqs \ {q} :
                /\ Fetching(r) => reqs'[r].signal = "live"
                /\ Sounding(r) => reqs'[r].audio \in {"loaded", "playing"}]_vars

\* this step is the automatic playback: a timer fires and calls
\* playTranslatedText
AutoPlays == Len(timers') < Len(timers) /\ Len(reqs') = Len(reqs) + 1

\* this step changes the displayed translation or the voice flag
DisplayChanges ==
    translatedText' # translatedText \/ isTTSEnabled' # isTTSEnabled

\* C21: at most one auto-play timer is pending at any time; a step that
\* changes the displayed translation or the voice flag leaves no timer
\* pending but the one it sets itself, which waits the full DebounceWait
\* over the text of that step; and the automatic playback is only started
\* by a timer whose text is the displayed one and has been displayed for at
\* least DebounceWait ms.
C21_Debounce ==
    /\ [](Len(timers) <= 1)
    /\ [][/\ DisplayChanges =>
               \A k \in DOMAIN timers' :
                   /\ timers'[k].closure.translatedText = translatedText'
                   /\ timers'[k].due = now + DebounceWait
          /\ AutoPlays =>
               \A k \in DOMAIN timers :
                   /\ timers[k].closure.translatedText = translatedText
                   /\ now' >= lastTranslationTimeRef + DebounceWait]_vars

\* The voice was never muted; a first translation arrived at 0 and was
\* played by its timer at DebounceWait, when a second one arrived, whose
\* timer has fired after its own wait.
C21_Witness ==
    /\ isTTSEnabled /\ ttsEnableTimeRef = 0
    /\ lastTranslationTimeRef = DebounceWait
    /\ now = 2 * DebounceWait
    /\ Len(reqs) = 2
    /\ timers = <<>>

\* C24: no timer is pending while the voice is muted and the automatic
\* playback is only started while it is enabled; a step that enables the
\* voice after the time at which the displayed translation arrived sets no
\* timer; and the automatic playback is only started for a translation that
\* arrived at or after the time of the last enabling.
C24_Gating ==
    /\ [](~isTTSEnabled => timers = <<>>)
    /\ [][/\ AutoPlays =>
               /\ isTTSEnabled
               /\ lastTranslationTimeRef >= ttsEnableTimeRef
          /\ ( /\ ~isTTSEnabled /\ isTTSEnabled'
               /\ lastTranslationTimeRef < now ) => timers' = <<>>]_vars

\* The displayed translation arrived before the voice was last enabled:
\* the enabling has set no timer and nothing has been played.
C24_Witness ==
    /\ isTTSEnabled
    /\ translatedText # EmptyText
    /\ lastTranslationTimeRef < ttsEnableTimeRef
    /\ timers = <<>>
    /\ reqs = <<>>

====
